---------------------------- MODULE Spec2Model ----------------------------
(***************************************************************************)
(* A model of 01_LectureNotes/02_DataFrames.ipynb: the Titanic cleaning    *)
(* cells (dropna, drop, get_dummies, rename, drop_duplicates, map)         *)
(* and the APIS cells (read_csv, the in-place key deduplication loop, the  *)
(* left-merge loop, dropna on K5, hh_income_pc = K5 / FSIZE, and the two   *)
(* filters around the 99th percentile).                                    *)
(*                                                                         *)
(* A table (DataFrame) is a record [cols, rows]: cols is the set of column *)
(* names and rows the sequence of rows in positional order, each row a     *)
(* function from cols to cells.  A cell is a tuple:                        *)
(*     << >>        the missing value (NaN / None)                         *)
(*     <<s>>        the string s                                           *)
(*     <<n, d>>     the number n/d in lowest terms with d > 0              *)
(*     <<1, 0>>     +inf           <<-1, 0>>   -inf                        *)
(* Numbers are exact rationals: the rounding of float64 is not modelled.   *)
(* The row index labels of pandas are not modelled: every operation of the *)
(* notebook is positional or aligns a table with itself.                   *)
(***************************************************************************)
EXTENDS Integers, Sequences, FiniteSets, TLC

VARIABLES
    pc,                 \* the notebook cell (or loop iteration) to run next
    df,                 \* sns.load_dataset('titanic')
    df_clean,           \* the Titanic table being cleaned
    before,             \* history: the table the last operation was applied to
    heap,               \* the DataFrame objects read_csv created, by object name
    loaded,             \* history: heap as read_csv returned it
    i,                  \* position in the loop over apis / apis_4merge
    order,              \* the iteration order of apis_4merge (object names)
    apis_merged,        \* the accumulating merged table
    apis_merged_clean,  \* apis_merged.dropna(subset=['K5']), later with hh_income_pc
    outliers,           \* rows above the 99th percentile
    apis_no_outliers,   \* rows at or below the 99th percentile
    thr                 \* history: the quantile each of the two filters computed

vars == <<pc, df, df_clean, before, heap, loaded, i, order,
          apis_merged, apis_merged_clean, outliers, apis_no_outliers, thr>>

-----------------------------------------------------------------------------
(* Bounds of the model *)

\* rows of a table read from a CSV file
MaxRows == 2
\* rows of the Titanic table
MaxPassengers == 2
\* rows of a table handed directly to the feature and quantile cells
MaxFeatureRows == 3
\* rows of a table handed directly to the merge loop
MaxJoinRows == 2
\* rows of a table handed directly to drop_duplicates
MaxDupRows == 3

-----------------------------------------------------------------------------
(* Cells *)

NA == << >>
Str(s) == <<s>>
PInf == <<1, 0>>
NInf == <<-1, 0>>

IsNull(v) == v = NA
IsNum(v) == Len(v) = 2
IsFinite(v) == IsNum(v) /\ v[2] # 0

Abs(n) == IF n < 0 THEN -n ELSE n

RECURSIVE Gcd(_, _)
Gcd(a, b) == IF b = 0 THEN a ELSE Gcd(b, a % b)

\* the number n/d (d # 0) in lowest terms
Rat(n, d) ==
    LET g == Gcd(Abs(n), Abs(d))
        s == IF d < 0 THEN -1 ELSE 1
    IN  <<(s * n) \div g, (s * d) \div g>>

Num(n) == <<n, 1>>

Sign(n) == IF n > 0 THEN 1 ELSE IF n < 0 THEN -1 ELSE 0

\* IEEE-754 arithmetic on cells, NaN being the missing value
Neg(a) == IF IsNull(a) THEN NA ELSE <<-a[1], a[2]>>

ExtAdd(a, b) ==
    IF IsNull(a) \/ IsNull(b) THEN NA
    ELSE IF ~IsFinite(a) /\ ~IsFinite(b) THEN (IF a = b THEN a ELSE NA)
    ELSE IF ~IsFinite(a) THEN a
    ELSE IF ~IsFinite(b) THEN b
    ELSE Rat(a[1] * b[2] + b[1] * a[2], a[2] * b[2])

ExtSub(a, b) == ExtAdd(a, Neg(b))

ExtMul(a, b) ==
    IF IsNull(a) \/ IsNull(b) THEN NA
    ELSE IF IsFinite(a) /\ IsFinite(b) THEN Rat(a[1] * b[1], a[2] * b[2])
    ELSE IF a[1] = 0 \/ b[1] = 0 THEN NA
    ELSE <<Sign(a[1]) * Sign(b[1]), 0>>

\* a < b on cells; every comparison with a missing value is False
Less(a, b) ==
    IF IsNull(a) \/ IsNull(b) THEN FALSE
    ELSE IF a = b THEN FALSE
    ELSE IF a = NInf \/ b = PInf THEN TRUE
    ELSE IF a = PInf \/ b = NInf THEN FALSE
    ELSE a[1] * b[2] < b[1] * a[2]

Greater(a, b) == Less(b, a)
LessEq(a, b) == ~IsNull(a) /\ ~IsNull(b) /\ ~Less(b, a)


TrueDivZeroIsMissing(a, b) ==
    IF IsNull(a) \/ IsNull(b) THEN NA
    ELSE IF ~IsFinite(a) \/ ~IsFinite(b) THEN NA
    ELSE IF b[1] = 0 THEN NA
    ELSE Rat(a[1] * b[2], a[2] * b[1])

\* a / b as pandas divides two numeric columns (numpy true_divide): no
\* exception; x/0 is +inf or -inf by the sign of x, and 0/0 is NaN
TrueDiv(a, b) ==
    IF IsNull(a) \/ IsNull(b) THEN NA
    ELSE IF ~IsFinite(a) /\ ~IsFinite(b) THEN NA
    ELSE IF ~IsFinite(a) THEN <<a[1] * (IF b[1] < 0 THEN -1 ELSE 1), 0>>
    ELSE IF ~IsFinite(b) THEN Num(0)
    ELSE IF b[1] = 0 THEN (IF a[1] = 0 THEN NA ELSE <<Sign(a[1]), 0>>)
    ELSE Rat(a[1] * b[2], a[2] * b[1])

-----------------------------------------------------------------------------
(* Sequences *)

Range(s) == {s[k] : k \in DOMAIN s}

\* the subsequence of s at the positions of the set keep, from position k on
RECURSIVE SelectIdx(_, _, _)
SelectIdx(s, keep, k) ==
    IF k > Len(s) THEN << >>
    ELSE (IF k \in keep THEN <<s[k]>> ELSE << >>) \o SelectIdx(s, keep, k + 1)

RECURSIVE InsertSorted(_, _)
InsertSorted(v, s) ==
    IF s = << >> THEN <<v>>
    ELSE IF Less(v, Head(s)) THEN <<v>> \o s
    ELSE <<Head(s)>> \o InsertSorted(v, Tail(s))

RECURSIVE SortCells(_)
SortCells(s) == IF s = << >> THEN << >> ELSE InsertSorted(Head(s), SortCells(Tail(s)))

RECURSIVE Flatten(_)
Flatten(ss) == IF ss = << >> THEN << >> ELSE Head(ss) \o Flatten(Tail(ss))

-----------------------------------------------------------------------------
(* DataFrame operations *)

Table(cols, rows) == [cols |-> cols, rows |-> rows]
NRows(t) == Len(t.rows)
Column(t, c) == [k \in 1..NRows(t) |-> t.rows[k][c]]

DropNaAnyColumn(t, c) ==
    [cols |-> t.cols,
     rows |-> SelectSeq(t.rows, LAMBDA r : \A x \in t.cols : r[x] # << >>)]

\* DataFrame.dropna(subset=[c]): the rows whose c is not missing, in order
DropNa(t, c) ==
    Table(t.cols, SelectSeq(t.rows, LAMBDA r : ~IsNull(r[c])))

\* DataFrame.drop(columns=[c]); with the default errors='raise' a column
\* that is absent raises KeyError (HasColumn is the caller's test)
HasColumn(t, c) == c \in t.cols
DropColumn(t, c) ==
    Table(t.cols \ {c}, [k \in 1..NRows(t) |-> [x \in t.cols \ {c} |-> t.rows[k][x]]])

\* DataFrame.rename(columns={old: new})
Rename(t, old, new) ==
    LET nm(x) == IF x = old THEN new ELSE x
        cs == {nm(x) : x \in t.cols}
        back(y) == CHOOSE x \in t.cols : nm(x) = y
    IN  Table(cs, [k \in 1..NRows(t) |-> [y \in cs |-> t.rows[k][back(y)]]])

DuplicatedOnKeepLast(t, c, k) ==
    \E j \in (k + 1)..Len(t.rows) : t.rows[j][c] = t.rows[k][c]

\* DataFrame.duplicated(subset=c, keep='first'): row k repeats an earlier key
DuplicatedOn(t, c, k) == \E j \in 1..(k - 1) : t.rows[j][c] = t.rows[k][c]

\* DataFrame.drop_duplicates(subset=c, keep='first')
DropDuplicatesOn(t, c) ==
    Table(t.cols, SelectIdx(t.rows, {k \in 1..NRows(t) : ~DuplicatedOn(t, c, k)}, 1))

DuplicatedKeepLast(t, k) == \E j \in (k + 1)..Len(t.rows) : t.rows[j] = t.rows[k]

\* DataFrame.duplicated(): row k is identical in all columns to an earlier row
Duplicated(t, k) == \E j \in 1..(k - 1) : t.rows[j] = t.rows[k]

\* DataFrame.drop_duplicates()
DropDuplicates(t) ==
    Table(t.cols, SelectIdx(t.rows, {k \in 1..NRows(t) : ~Duplicated(t, k)}, 1))

\* boolean-mask selection t[mask], mask being the set of positions kept
Filter(t, mask) == Table(t.cols, SelectIdx(t.rows, mask, 1))

\* t[c] = values (a new or replaced column, aligned row by row)
WithColumn(t, c, values) ==
    Table(t.cols \cup {c},
          [k \in 1..NRows(t) |->
              [x \in t.cols \cup {c} |-> IF x = c THEN values[k] ELSE t.rows[k][x]]])


\* the non-key columns that both sides of a merge have
Overlap(left, right, key) == (left.cols \cap right.cols) \ {key}

\* the names merge gives the left and the right columns: a column of
\* Overlap gets the default suffix _x (left) or _y (right)
LeftName(left, right, key, c) == IF c \in Overlap(left, right, key) THEN c \o "_x" ELSE c
RightName(left, right, key, c) == IF c \in Overlap(left, right, key) THEN c \o "_y" ELSE c

\* left.merge(right, on=key, how=how).  For each left row in order: one row
\* per right row with the same key (in right order), or, under 'left' and
\* 'outer', one row with missing values in the right columns when no right
\* row matches.  Under 'right' and 'outer' a right row that no left row
\* matches gives a row with missing values in the left columns.
Merge(left, right, key, how) ==
    LET lcols == {LeftName(left, right, key, c) : c \in left.cols}
        rcols == {RightName(left, right, key, c) : c \in right.cols \ {key}}
        lsrc(y) == CHOOSE c \in left.cols : LeftName(left, right, key, c) = y
        rsrc(y) == CHOOSE c \in right.cols \ {key} : RightName(left, right, key, c) = y
        Matched(l, r) ==
            [y \in lcols \cup rcols |-> IF y \in lcols THEN l[lsrc(y)] ELSE r[rsrc(y)]]
        LeftOnly(l) ==
            [y \in lcols \cup rcols |-> IF y \in lcols THEN l[lsrc(y)] ELSE NA]
        RightOnly(r) ==
            [y \in lcols \cup rcols |->
                IF y = key THEN r[key] ELSE IF y \in lcols THEN NA ELSE r[rsrc(y)]]
        Joined(l) ==
            LET ms == SelectSeq(right.rows, LAMBDA r : r[key] = l[key])
            IN  IF ms = << >>
                THEN (IF how \in {"left", "outer"} THEN <<LeftOnly(l)>> ELSE << >>)
                ELSE [j \in 1..Len(ms) |-> Matched(l, ms[j])]
        Extra(r) ==
            IF how \in {"right", "outer"} /\ \A k \in 1..NRows(left) : left.rows[k][key] # r[key]
            THEN <<RightOnly(r)>> ELSE << >>
    IN  Table(lcols \cup rcols,
              Flatten([k \in 1..NRows(left) |-> Joined(left.rows[k])])
              \o Flatten([k \in 1..NRows(right) |-> Extra(right.rows[k])]))

LeftMergeAsInner(left, right, key) == Merge(left, right, key, "inner")
LeftMergeAsOuter(left, right, key) == Merge(left, right, key, "outer")

\* left.merge(right, on=key, how='left')
LeftMerge(left, right, key) == Merge(left, right, key, "left")

GetDummiesKeepAll(t, c, levels) ==
    LET kept == {v \in Range(levels) : \E k \in 1..NRows(t) : t.rows[k][c] = Str(v)}
        dname(v) == c \o "_" \o v
        dcols == {dname(v) : v \in kept}
        rest == t.cols \ {c}
        level(y) == CHOOSE v \in kept : dname(v) = y
    IN  Table(rest \cup dcols,
              [k \in 1..NRows(t) |->
                  [y \in rest \cup dcols |->
                      IF y \in rest THEN t.rows[k][y]
                      ELSE IF t.rows[k][c] = Str(level(y)) THEN Num(1) ELSE Num(0)]])

\* pd.get_dummies(t, columns=[c], drop_first=True): one indicator column
\* c_<level> per level of c present in the data, the levels sorted and the
\* first one dropped; c itself is removed, and a row whose c is missing is 0
\* in every indicator.  levels is the sorted sequence of possible values.
GetDummiesDropFirst(t, c, levels) ==
    LET present == SelectSeq(levels, LAMBDA v : \E k \in 1..NRows(t) : t.rows[k][c] = Str(v))
        kept == IF present = << >> THEN {} ELSE Range(Tail(present))
        dname(v) == c \o "_" \o v
        dcols == {dname(v) : v \in kept}
        rest == t.cols \ {c}
        level(y) == CHOOSE v \in kept : dname(v) = y
    IN  Table(rest \cup dcols,
              [k \in 1..NRows(t) |->
                  [y \in rest \cup dcols |->
                      IF y \in rest THEN t.rows[k][y]
                      ELSE IF t.rows[k][c] = Str(level(y)) THEN Num(1) ELSE Num(0)]])

MapDictKeepAbsent(values, dict) ==
    [k \in DOMAIN values |->
        IF ~IsNull(values[k]) /\ values[k][1] \in DOMAIN dict
        THEN Num(dict[values[k][1]]) ELSE values[k]]

\* Series.map(dict): the dict's value for a key it holds, missing otherwise
MapDict(values, dict) ==
    [k \in DOMAIN values |->
        IF ~IsNull(values[k]) /\ values[k][1] \in DOMAIN dict
        THEN Num(dict[values[k][1]]) ELSE NA]

\* the percentile the two filters ask for: quantile(0.99)
QuantilePct == 99

\* numpy's _lerp(a, b, t), which np.percentile(method='linear') ends in
Lerp(a, b, t) ==
    LET diff == ExtSub(b, a)
    IN  IF Less(t, <<1, 2>>) THEN ExtAdd(a, ExtMul(diff, t))
        ELSE ExtSub(b, ExtMul(diff, ExtSub(Num(1), t)))

\* Series.quantile(q): missing values are masked out; the rest is sorted and
\* interpolated linearly at the virtual index (m - 1) * q; no value at all
\* gives NaN
Quantile(values, pct) ==
    LET vs == SortCells(SelectSeq(values, LAMBDA v : ~IsNull(v)))
        m == Len(vs)
        lo == (pct * (m - 1)) \div 100
        hi == IF lo + 1 > m - 1 THEN m - 1 ELSE lo + 1
        t == Rat((pct * (m - 1)) % 100, 100)
    IN  IF m = 0 THEN NA ELSE Lerp(vs[lo + 1], vs[hi + 1], t)


-----------------------------------------------------------------------------
(* Inputs *)

EmptyTable == Table({}, << >>)

\* all sequences over S of length at most n
SeqsUpTo(S, n) == UNION {[1..m -> S] : m \in 0..n}

\* household identifiers occurring in the files
HHIDs == {Num(1), Num(2)}

\* The Titanic table.  Of its 15 columns the model keeps the ones a modelled
\* cell names: sex, embarked, deck, embark_town and parch (age and its
\* interpolation, and the survived filter, are left out).  Belfast stands
\* for any town that is no key of embarked_dict.
TitanicRows ==
    [sex : {Str("male"), Str("female")},
     embarked : {NA, Str("S")},
     deck : {Str("C")},
     embark_town : {NA, Str("Southampton"), Str("Cherbourg"), Str("Queenstown"), Str("Belfast")},
     parch : {Num(0)}]

TitanicTables ==
    {Table({"sex", "embarked", "deck", "embark_town", "parch"}, rs) :
        rs \in SeqsUpTo(TitanicRows, MaxPassengers)}

\* Of the eleven APIS files the model reads three: the household record
\* (the base of the merge, carrying FSIZE), the member record and RTK
\* (carrying K5).  LNO numbers the lines of the member record, so that its
\* rows differ.  A file other than the household record may lack REG.
HhTables ==
    {Table({"HHID", "REG", "FSIZE"}, rs) :
        rs \in SeqsUpTo([HHID : HHIDs, REG : {Num(1)}, FSIZE : {Num(0), Num(2)}], MaxRows)}

MemTables ==
    {Table({"HHID", "REG", "LNO"},
           [k \in DOMAIN ks |-> [HHID |-> ks[k], REG |-> Num(1), LNO |-> Num(k)]]) :
        ks \in SeqsUpTo(HHIDs, MaxRows)}
    \cup
    {Table({"HHID", "LNO"}, [k \in DOMAIN ks |-> [HHID |-> ks[k], LNO |-> Num(k)]]) :
        ks \in SeqsUpTo(HHIDs, MaxRows)}

RtkTables ==
    {Table({"HHID", "REG", "K5"},
           [k \in DOMAIN ks |-> [HHID |-> ks[k], REG |-> Num(1), K5 |-> Num(6 * k)]]) :
        ks \in SeqsUpTo(HHIDs, MaxRows)}
    \cup
    {Table({"HHID", "K5"}, [k \in DOMAIN ks |-> [HHID |-> ks[k], K5 |-> Num(6 * k)]]) :
        ks \in SeqsUpTo(HHIDs, MaxRows)}

\* the dict apis, in insertion order: references to the objects of heap
apis == <<"hh_rec", "mem_rec", "apis_rtk">>

\* the dict apis_4merge, in insertion order: the same objects without hh_rec
apis_4merge == <<"mem_rec", "apis_rtk">>

CsvHeaps ==
    {[hh_rec |-> h, mem_rec |-> m, apis_rtk |-> k] :
        h \in HhTables, m \in MemTables, k \in RtkTables}

-----------------------------------------------------------------------------
(* The Titanic cells *)

Init ==
    /\ pc \in {"load_dataset", "read_csv"}
    /\ df = EmptyTable
    /\ df_clean = EmptyTable
    /\ before = EmptyTable
    /\ heap = [n \in {} |-> EmptyTable]
    /\ loaded = [n \in {} |-> EmptyTable]
    /\ i = 0
    /\ order = apis_4merge
    /\ apis_merged = EmptyTable
    /\ apis_merged_clean = EmptyTable
    /\ outliers = EmptyTable
    /\ apis_no_outliers = EmptyTable
    /\ thr = [above |-> NA, atOrBelow |-> NA]

ApisVars == <<heap, loaded, i, order, apis_merged, apis_merged_clean, outliers,
              apis_no_outliers, thr>>

\* df = sns.load_dataset('titanic')
LoadDataset ==
    /\ pc = "load_dataset"
    /\ df' \in TitanicTables
    /\ pc' = "copy"
    /\ UNCHANGED <<df_clean, before, ApisVars>>

\* df_clean = df.copy()
CopyDf ==
    /\ pc = "copy"
    /\ df_clean' = df
    /\ before' = df
    /\ pc' = "dropna_embarked"
    /\ UNCHANGED <<df, ApisVars>>

\* df_clean = df_clean.dropna(subset=['embarked'])
DropNaEmbarked ==
    /\ pc = "dropna_embarked"
    /\ df_clean' = DropNa(df_clean, "embarked")
    /\ before' = df_clean
    /\ pc' = "drop_deck"
    /\ UNCHANGED <<df, ApisVars>>

\* df_clean = df_clean.drop(columns=['deck'])
DropDeck ==
    /\ pc = "drop_deck"
    /\ df_clean' = DropColumn(df_clean, "deck")
    /\ before' = df_clean
    /\ pc' = "get_dummies"
    /\ UNCHANGED <<df, ApisVars>>

\* the levels of sex, in the sorted order get_dummies gives them
SexLevels == <<"female", "male">>

\* df_clean = pd.get_dummies(df_clean, columns=['sex'], drop_first=True)
GetDummies ==
    /\ pc = "get_dummies"
    /\ df_clean' = GetDummiesDropFirst(df_clean, "sex", SexLevels)
    /\ before' = df_clean
    /\ pc' = "rename"
    /\ UNCHANGED <<df, ApisVars>>

\* df_clean.rename(columns={'parch': 'parent_child'}, inplace=True)
RenameParch ==
    /\ pc = "rename"
    /\ df_clean' = Rename(df_clean, "parch", "parent_child")
    /\ before' = df_clean
    /\ pc' = "drop_duplicates"
    /\ UNCHANGED <<df, ApisVars>>

\* df_clean = df_clean.drop_duplicates()
DropDuplicateRows ==
    /\ pc = "drop_duplicates"
    /\ df_clean' = DropDuplicates(df_clean)
    /\ before' = df_clean
    /\ pc' = "map"
    /\ UNCHANGED <<df, ApisVars>>

embarked_dict == [Southampton |-> 0, Cherbourg |-> 1, Queenstown |-> 2]

\* df_clean['emb_dum'] = df_clean['embark_town'].map(embarked_dict)
MapEmbarkTown ==
    /\ pc = "map"
    /\ df_clean' = WithColumn(df_clean, "emb_dum",
                              MapDict(Column(df_clean, "embark_town"), embarked_dict))
    /\ before' = df_clean
    /\ pc' = "titanic_done"
    /\ UNCHANGED <<df, ApisVars>>


-----------------------------------------------------------------------------
(* The APIS cells *)

TitanicVars == <<df, df_clean>>

\* hh_rec = pd.read_csv(...), mem_rec = pd.read_csv(...), ...
ReadCsv ==
    /\ pc = "read_csv"
    /\ heap' \in CsvHeaps
    /\ loaded' = heap'
    /\ i' = 1
    /\ pc' = "dedup"
    /\ UNCHANGED <<TitanicVars, before, order, apis_merged, apis_merged_clean,
                   outliers, apis_no_outliers, thr>>

DedupStepOnCopy ==
    /\ pc = "dedup"
    /\ i <= Len(apis)
    /\ before' = heap[apis[i]]
    /\ i' = i + 1
    /\ pc' = IF i = Len(apis) THEN "merge_start" ELSE "dedup"
    /\ UNCHANGED <<TitanicVars, heap, loaded, order, apis_merged, apis_merged_clean,
                   outliers, apis_no_outliers, thr>>

\* one iteration of
\*   for name, data in apis.items():
\*       data.drop_duplicates(subset='HHID', keep='first', inplace=True)
\* data is the object the dict refers to, and it is changed in place
DedupStep ==
    /\ pc = "dedup"
    /\ i <= Len(apis)
    /\ heap' = [heap EXCEPT ![apis[i]] = DropDuplicatesOn(@, "HHID")]
    /\ before' = heap[apis[i]]
    /\ i' = i + 1
    /\ pc' = IF i = Len(apis) THEN "merge_start" ELSE "dedup"
    /\ UNCHANGED <<TitanicVars, loaded, order, apis_merged, apis_merged_clean,
                   outliers, apis_no_outliers, thr>>

MergeStartFromLoaded ==
    /\ pc = "merge_start"
    /\ apis_merged' = loaded["hh_rec"]
    /\ i' = 1
    /\ pc' = "merge"
    /\ UNCHANGED <<TitanicVars, before, heap, loaded, order, apis_merged_clean,
                   outliers, apis_no_outliers, thr>>

\* apis_merged = hh_rec.copy()
MergeStart ==
    /\ pc = "merge_start"
    /\ apis_merged' = heap["hh_rec"]
    /\ i' = 1
    /\ pc' = "merge"
    /\ UNCHANGED <<TitanicVars, before, heap, loaded, order, apis_merged_clean,
                   outliers, apis_no_outliers, thr>>

MergeBodyKeepReg(merged, data) == LeftMerge(merged, data, "HHID")

MergeBodyRight(merged, data) == Merge(merged, DropColumn(data, "REG"), "HHID", "right")

\* the body of the merge loop for the table data:
\*   data_copy = data.copy(); data_copy.drop(columns=['REG'], inplace=True)
\*   apis_merged = apis_merged.merge(data_copy, on='HHID', how='left')
MergeBody(merged, data) == LeftMerge(merged, DropColumn(data, "REG"), "HHID")

\* one iteration of the loop over apis_4merge (in the order `order`); drop
\* raises KeyError when data has no REG, and the cell stops there
MergeStep ==
    /\ pc = "merge"
    /\ i <= Len(order)
    /\ IF HasColumn(heap[order[i]], "REG")
       THEN /\ apis_merged' = MergeBody(apis_merged, heap[order[i]])
            /\ before' = apis_merged
            /\ i' = i + 1
            /\ pc' = IF i = Len(order) THEN "dropna_K5" ELSE "merge"
       ELSE /\ pc' = "KeyError"
            /\ UNCHANGED <<apis_merged, before, i>>
    /\ UNCHANGED <<TitanicVars, heap, loaded, order, apis_merged_clean,
                   outliers, apis_no_outliers, thr>>

\* apis_merged_clean = apis_merged.dropna(subset=['K5'])
DropNaK5 ==
    /\ pc = "dropna_K5"
    /\ IF HasColumn(apis_merged, "K5")
       THEN /\ apis_merged_clean' = DropNa(apis_merged, "K5")
            /\ before' = apis_merged
            /\ pc' = "derive"
       ELSE /\ pc' = "KeyError"
            /\ UNCHANGED <<apis_merged_clean, before>>
    /\ UNCHANGED <<TitanicVars, heap, loaded, i, order, apis_merged, outliers,
                   apis_no_outliers, thr>>

IncomePerCapitaByFirstRow(t) ==
    [k \in 1..NRows(t) |-> TrueDiv(t.rows[k]["K5"], t.rows[1]["FSIZE"])]

\* K5 / FSIZE, row by row
IncomePerCapita(t) ==
    [k \in 1..NRows(t) |-> TrueDiv(t.rows[k]["K5"], t.rows[k]["FSIZE"])]

\* apis_merged_clean['hh_income_pc'] = apis_merged_clean['K5'] / apis_merged_clean['FSIZE']
Derive ==
    /\ pc = "derive"
    /\ apis_merged_clean' =
           WithColumn(apis_merged_clean, "hh_income_pc", IncomePerCapita(apis_merged_clean))
    /\ before' = apis_merged_clean
    /\ pc' = "outliers"
    /\ UNCHANGED <<TitanicVars, heap, loaded, i, order, apis_merged, outliers,
                   apis_no_outliers, thr>>

\* apis_merged_clean['hh_income_pc'].quantile(0.99)
Threshold(t) == Quantile(Column(t, "hh_income_pc"), QuantilePct)

\* t[t['hh_income_pc'] > t['hh_income_pc'].quantile(0.99)]
RowsAbove(t) ==
    Filter(t, {k \in 1..NRows(t) : Greater(t.rows[k]["hh_income_pc"], Threshold(t))})

RowsBelow(t) ==
    [cols |-> t.cols,
     rows |-> SelectSeq(t.rows,
                        LAMBDA r : Less(r["hh_income_pc"],
                                        Quantile(Column(t, "hh_income_pc"), QuantilePct)))]

\* t[t['hh_income_pc'] <= t['hh_income_pc'].quantile(0.99)]
RowsAtOrBelow(t) ==
    Filter(t, {k \in 1..NRows(t) : LessEq(t.rows[k]["hh_income_pc"], Threshold(t))})

\* outliers = apis_merged_clean[... > ...quantile(0.99)]
Outliers ==
    /\ pc = "outliers"
    /\ outliers' = RowsAbove(apis_merged_clean)
    /\ thr' = [thr EXCEPT !.above = Threshold(apis_merged_clean)]
    /\ pc' = "no_outliers"
    /\ UNCHANGED <<TitanicVars, before, heap, loaded, i, order, apis_merged,
                   apis_merged_clean, apis_no_outliers>>

\* apis_no_outliers = apis_merged_clean[... <= ...quantile(0.99)]
NoOutliers ==
    /\ pc = "no_outliers"
    /\ apis_no_outliers' = RowsAtOrBelow(apis_merged_clean)
    /\ thr' = [thr EXCEPT !.atOrBelow = Threshold(apis_merged_clean)]
    /\ pc' = "apis_done"
    /\ UNCHANGED <<TitanicVars, before, heap, loaded, i, order, apis_merged,
                   apis_merged_clean, outliers>>

Next ==
    \/ LoadDataset
    \/ CopyDf
    \/ DropNaEmbarked
    \/ DropDeck
    \/ GetDummies
    \/ RenameParch
    \/ DropDuplicateRows
    \/ MapEmbarkTown
    \/ ReadCsv
    \/ DedupStep
    \/ MergeStart
    \/ MergeStep
    \/ DropNaK5
    \/ Derive
    \/ Outliers
    \/ NoOutliers

\* The notebook: the Titanic cells and the APIS cells, each section run from
\* its first cell to its last.  The APIS cells read nothing the Titanic
\* cells wrote, so the two sections are explored separately.
Spec == Init /\ [][Next]_vars


-----------------------------------------------------------------------------
(* The merge loop on its own, over tables that were not deduplicated *)

\* Tables with the columns HHID, V and (but for the base, optionally) REG:
\* any multiplicity of HHID, V numbering the rows.  V is on every table, so
\* the merges rename it.
JoinRows(ks, withReg) ==
    [k \in DOMAIN ks |->
        IF withReg THEN [HHID |-> ks[k], REG |-> Num(1), V |-> Num(k)]
        ELSE [HHID |-> ks[k], V |-> Num(k)]]

JoinBases ==
    {Table({"HHID", "REG", "V"}, JoinRows(ks, TRUE)) : ks \in SeqsUpTo(HHIDs, MaxJoinRows)}

JoinOthers ==
    JoinBases \cup
    {Table({"HHID", "V"}, JoinRows(ks, FALSE)) : ks \in SeqsUpTo(HHIDs, MaxJoinRows)}

JoinHeaps ==
    {[hh_rec |-> h, mem_rec |-> m, apis_rtk |-> k] :
        h \in JoinBases, m \in JoinOthers, k \in JoinOthers}

\* the orders in which the tables of s can be iterated
Perms(s) ==
    {p \in [1..Len(s) -> Range(s)] : \A a, b \in 1..Len(s) : a # b => p[a] # p[b]}

InitJoin ==
    /\ pc = "merge_start"
    /\ df = EmptyTable
    /\ df_clean = EmptyTable
    /\ before = EmptyTable
    /\ heap \in JoinHeaps
    /\ loaded = heap
    /\ i = 0
    /\ order \in Perms(apis_4merge)
    /\ apis_merged = EmptyTable
    /\ apis_merged_clean = EmptyTable
    /\ outliers = EmptyTable
    /\ apis_no_outliers = EmptyTable
    /\ thr = [above |-> NA, atOrBelow |-> NA]

NextJoin ==
    \/ MergeStart
    \/ MergeStep

SpecJoin == InitJoin /\ [][NextJoin]_vars

\* the whole merge loop over the tables named by names, from the table merged
RECURSIVE MergeLoop(_, _, _)
MergeLoop(merged, names, h) ==
    IF names = << >> THEN merged
    ELSE MergeLoop(MergeBody(merged, h[Head(names)]), Tail(names), h)

-----------------------------------------------------------------------------
(* The feature and quantile cells on their own, over any K5 and FSIZE *)

\* three households with an income in the thousands
ExampleK5 == <<Num(1000), Num(2000), Num(3000)>>
ExampleFSIZE == <<Num(2), Num(4), Num(3)>>

ExampleTable ==
    Table({"K5", "FSIZE"},
          [k \in DOMAIN ExampleK5 |-> [K5 |-> ExampleK5[k], FSIZE |-> ExampleFSIZE[k]]])

FeatureTables ==
    {Table({"K5", "FSIZE"}, rs) :
        rs \in SeqsUpTo([K5 : {NA, Num(0), Num(6), Num(-6)},
                         FSIZE : {NA, Num(0), Num(2), Num(3)}], MaxFeatureRows)}
    \cup {ExampleTable}

InitFeature ==
    /\ pc = "derive"
    /\ df = EmptyTable
    /\ df_clean = EmptyTable
    /\ before = EmptyTable
    /\ heap = [n \in {} |-> EmptyTable]
    /\ loaded = heap
    /\ i = 0
    /\ order = apis_4merge
    /\ apis_merged = EmptyTable
    /\ apis_merged_clean \in FeatureTables
    /\ outliers = EmptyTable
    /\ apis_no_outliers = EmptyTable
    /\ thr = [above |-> NA, atOrBelow |-> NA]

NextFeature ==
    \/ Derive
    \/ Outliers
    \/ NoOutliers

SpecFeature == InitFeature /\ [][NextFeature]_vars

-----------------------------------------------------------------------------
(* The duplicate-removal cell on its own, over any table *)

\* Titanic tables as they are after the rename: of four possible rows, in
\* any order and with any repetition
DupTables ==
    {Table({"embarked", "embark_town", "parent_child", "sex_male"}, rs) :
        rs \in SeqsUpTo([embarked : {Str("S")},
                         embark_town : {NA, Str("Southampton")},
                         parent_child : {Num(0)},
                         sex_male : {Num(0), Num(1)}], MaxDupRows)}

InitDup ==
    /\ pc = "drop_duplicates"
    /\ df = EmptyTable
    /\ df_clean \in DupTables
    /\ before = EmptyTable
    /\ heap = [n \in {} |-> EmptyTable]
    /\ loaded = heap
    /\ i = 0
    /\ order = apis_4merge
    /\ apis_merged = EmptyTable
    /\ apis_merged_clean = EmptyTable
    /\ outliers = EmptyTable
    /\ apis_no_outliers = EmptyTable
    /\ thr = [above |-> NA, atOrBelow |-> NA]

NextDup ==
    \/ DropDuplicateRows
    \/ MapEmbarkTown

SpecDup == InitDup /\ [][NextDup]_vars


-----------------------------------------------------------------------------
(* Properties of the left join (checked under SpecJoin) *)

\* the number of rows of t whose HHID is h
KeyCount(t, h) == Cardinality({k \in 1..NRows(t) : t.rows[k]["HHID"] = h})

\* an iteration of the merge loop has completed: `before` is its left table
\* and heap[order[i - 1]] the table it joined
JoinedOnce == pc \in {"merge", "dropna_K5"} /\ i > 1

\* every key of the left table occurs at most once in the joined table
RightKeysUnique ==
    \A k \in 1..NRows(before) : KeyCount(heap[order[i - 1]], before.rows[k]["HHID"]) <= 1

C4_UnmatchedFilledRightOnlyDropped ==
    JoinedOnce =>
        LET left == before
            right == DropColumn(heap[order[i - 1]], "REG")
            incoming == {RightName(left, right, "HHID", c) : c \in right.cols \ {"HHID"}}
            IsCopyOf(j, k) ==
                \A c \in left.cols :
                    apis_merged.rows[j][LeftName(left, right, "HHID", c)] = left.rows[k][c]
        IN  /\ incoming \subseteq apis_merged.cols
            /\ \A k \in 1..NRows(left) :
                   KeyCount(right, left.rows[k]["HHID"]) = 0 =>
                       /\ \E j \in 1..NRows(apis_merged) : IsCopyOf(j, k)
                       /\ \A j \in 1..NRows(apis_merged) :
                              apis_merged.rows[j]["HHID"] = left.rows[k]["HHID"] =>
                                  \A y \in incoming : apis_merged.rows[j][y] = NA
            /\ \A r \in 1..NRows(right) :
                   KeyCount(left, right.rows[r]["HHID"]) = 0 =>
                       KeyCount(apis_merged, right.rows[r]["HHID"]) = 0

\* a step with an unmatched base row and a row of the other table whose key
\* the base lacks
C4_Witness ==
    /\ JoinedOnce
    /\ \E k \in 1..NRows(before) : KeyCount(heap[order[i - 1]], before.rows[k]["HHID"]) = 0
    /\ \E r \in 1..NRows(heap[order[i - 1]]) :
           KeyCount(before, heap[order[i - 1]].rows[r]["HHID"]) = 0

\* C10: when the merge loop has finished, joining the same tables in any
\* other order gives a result with the same number of rows and the same
\* number of rows per key value.
C10_OrderIndependentRows ==
    pc = "dropna_K5" =>
        \A o \in Perms(apis_4merge) :
            LET other == MergeLoop(heap["hh_rec"], o, heap)
            IN  /\ NRows(other) = NRows(apis_merged)
                /\ \A h \in HHIDs : KeyCount(other, h) = KeyCount(apis_merged, h)

\* a finished loop in the other order whose result differs from the result
\* of the notebook's order, and in which duplicate keys multiplied the rows
C10_Witness ==
    /\ pc = "dropna_K5"
    /\ order # apis_4merge
    /\ apis_merged # MergeLoop(heap["hh_rec"], apis_4merge, heap)
    /\ NRows(apis_merged) > NRows(heap["hh_rec"])


-----------------------------------------------------------------------------
(* Properties of the notebook's cells (checked under Spec) *)

\* the cells after the deduplication loop
AfterDedup ==
    {"merge_start", "merge", "dropna_K5", "derive", "outliers", "no_outliers",
     "apis_done", "KeyError"}

\* the deduplication loop has handled the n-th table of apis
Deduplicated(n) == (pc = "dedup" /\ i > n) \/ pc \in AfterDedup

\* the position of the first row of t whose HHID is h
FirstWithKey(t, h) ==
    CHOOSE k \in 1..NRows(t) :
        /\ t.rows[k]["HHID"] = h
        /\ \A j \in 1..(k - 1) : t.rows[j]["HHID"] # h

\* C2: once the deduplication loop has handled a table, every HHID of the
\* table as it was read occurs in it exactly once, on the first row that had
\* this HHID when the table was read, and no other HHID occurs.
C2_FirstRowPerKey ==
    \A n \in 1..Len(apis) :
        Deduplicated(n) =>
            \A h \in HHIDs :
                IF KeyCount(loaded[apis[n]], h) = 0
                THEN KeyCount(heap[apis[n]], h) = 0
                ELSE /\ KeyCount(heap[apis[n]], h) = 1
                     /\ \E j \in 1..NRows(heap[apis[n]]) :
                            heap[apis[n]].rows[j] =
                                loaded[apis[n]].rows[FirstWithKey(loaded[apis[n]], h)]

\* the loop is over and the member record, read with two different rows of
\* one HHID, holds the first of them only
C2_Witness ==
    /\ pc = "merge_start"
    /\ NRows(loaded["mem_rec"]) = 2
    /\ loaded["mem_rec"].rows[1]["HHID"] = loaded["mem_rec"].rows[2]["HHID"]
    /\ loaded["mem_rec"].rows[1] # loaded["mem_rec"].rows[2]
    /\ heap["mem_rec"].rows = <<loaded["mem_rec"].rows[1]>>

\* res holds exactly the rows of orig whose c is not missing, in their order
KeepsNonMissing(res, orig, c) ==
    /\ res.cols = orig.cols
    /\ \A k \in 1..NRows(res) : res.rows[k][c] # NA
    /\ res.rows = SelectSeq(orig.rows, LAMBDA r : r[c] # NA)

\* C3: after dropna(subset=['embarked']) and after dropna(subset=['K5']) no
\* row of the result has the column missing, and the result is exactly the
\* input rows whose column is not missing, in their original order.
C3_DropNaExact ==
    /\ pc = "drop_deck" => KeepsNonMissing(df_clean, before, "embarked")
    /\ pc = "derive" => KeepsNonMissing(apis_merged_clean, before, "K5")

\* dropna on embarked dropped one of two rows and kept a row whose
\* embark_town is missing
C3_Witness ==
    /\ pc = "drop_deck"
    /\ NRows(before) = 2
    /\ NRows(df_clean) = 1
    /\ df_clean.rows[1]["embark_town"] = NA

\* C5: when both categories of sex occur, get_dummies with drop_first gives
\* exactly one new column, sex_<category>, which is 1 on the rows of that
\* category and 0 on the others, and the column sex is gone.
C5_OneIndicatorColumn ==
    (pc = "rename" /\ Range(Column(before, "sex")) = {Str("male"), Str("female")}) =>
        /\ "sex" \notin df_clean.cols
        /\ NRows(df_clean) = NRows(before)
        /\ \E c \in {"male", "female"} :
               /\ df_clean.cols \ before.cols = {"sex_" \o c}
               /\ \A k \in 1..NRows(df_clean) :
                      df_clean.rows[k]["sex_" \o c] =
                          IF before.rows[k]["sex"] = Str(c) THEN Num(1) ELSE Num(0)

\* get_dummies has run on a table with a male and a female row
C5_Witness ==
    /\ pc = "rename"
    /\ Range(Column(before, "sex")) = {Str("male"), Str("female")}
    /\ \E k \in 1..NRows(df_clean) : df_clean.rows[k]["sex_male"] = Num(1)
    /\ \E k \in 1..NRows(df_clean) : df_clean.rows[k]["sex_male"] = Num(0)

\* the code embarked_dict gives a town, missing for any other value
TownCode(v) ==
    IF v = Str("Southampton") THEN Num(0)
    ELSE IF v = Str("Cherbourg") THEN Num(1)
    ELSE IF v = Str("Queenstown") THEN Num(2)
    ELSE NA

\* C9: after the map every row has in emb_dum the code of its embark_town,
\* missing when the town is no key of the lookup or is itself missing; no
\* row is added or removed and the other columns are unchanged.
C9_MapCodesOrMissing ==
    pc = "titanic_done" =>
        /\ NRows(df_clean) = NRows(before)
        /\ df_clean.cols = before.cols \cup {"emb_dum"}
        /\ \A k \in 1..NRows(df_clean) :
               /\ df_clean.rows[k]["emb_dum"] = TownCode(before.rows[k]["embark_town"])
               /\ \A c \in before.cols : df_clean.rows[k][c] = before.rows[k][c]

\* the map has run on a row of a town outside the lookup and on a row of
\* Queenstown
C9_Witness ==
    /\ pc = "titanic_done"
    /\ \E k \in 1..NRows(df_clean) :
           /\ df_clean.rows[k]["embark_town"] = Str("Belfast")
           /\ df_clean.rows[k]["emb_dum"] = NA
    /\ \E k \in 1..NRows(df_clean) :
           /\ df_clean.rows[k]["embark_town"] = Str("Queenstown")
           /\ df_clean.rows[k]["emb_dum"] = Num(2)

\* C8 as stated: every iteration of the merge loop proceeds without an
\* error, joining the table without its REG column if it has one and as it
\* is otherwise.
C8_NoRegJoinedAsIs ==
    [][pc = "merge" =>
           /\ pc' # "KeyError"
           /\ apis_merged'.cols =
                  apis_merged.cols \cup (heap[order[i]].cols \ {"HHID", "REG"})]_vars

\* C8 amended: an iteration of the merge loop on a table that has a REG
\* column joins the table without it; on a table that has no REG column it
\* raises KeyError, the loop stops and apis_merged stays as the previous
\* iteration left it.
C8_RegDroppedOrKeyError ==
    [][pc = "merge" =>
           IF "REG" \in heap[order[i]].cols
           THEN /\ pc' # "KeyError"
                /\ apis_merged'.cols =
                       apis_merged.cols \cup (heap[order[i]].cols \ {"HHID", "REG"})
           ELSE /\ pc' = "KeyError"
                /\ apis_merged' = apis_merged]_vars

\* the loop joined the member record and stopped on RTK, which has no REG
C8_Witness ==
    /\ pc = "KeyError"
    /\ i = 2
    /\ "REG" \notin heap[order[2]].cols
    /\ "LNO" \in apis_merged.cols
    /\ "K5" \notin apis_merged.cols
    /\ NRows(apis_merged) > 0

-----------------------------------------------------------------------------
(* Properties of the feature and quantile cells (checked under SpecFeature) *)

AfterDerive == {"outliers", "no_outliers", "apis_done"}

\* C7 as stated: a row whose FSIZE is missing or zero, or whose K5 is
\* missing, gets a missing hh_income_pc.
C7_ZeroOrMissingGivesMissing ==
    pc \in AfterDerive =>
        \A k \in 1..NRows(apis_merged_clean) :
            LET r == apis_merged_clean.rows[k]
            IN  (r["FSIZE"] = NA \/ r["FSIZE"] = Num(0) \/ r["K5"] = NA) =>
                    r["hh_income_pc"] = NA

\* C7 amended: a row whose FSIZE or K5 is missing gets a missing
\* hh_income_pc; a row whose FSIZE is zero gets +inf when K5 is positive,
\* -inf when K5 is negative, and a missing value only when K5 is zero; every
\* other row gets the quotient.  No row is added or removed.
C7_DivisionByZeroGivesInf ==
    pc \in AfterDerive =>
        /\ NRows(apis_merged_clean) = NRows(before)
        /\ \A k \in 1..NRows(apis_merged_clean) :
               LET r == apis_merged_clean.rows[k]
                   v == r["hh_income_pc"]
               IN  /\ r["K5"] = before.rows[k]["K5"]
                   /\ r["FSIZE"] = before.rows[k]["FSIZE"]
                   /\ IF r["FSIZE"] = NA \/ r["K5"] = NA THEN v = NA
                      ELSE IF r["FSIZE"] = Num(0)
                      THEN v = (IF r["K5"][1] > 0 THEN PInf
                                ELSE IF r["K5"][1] < 0 THEN NInf ELSE NA)
                      ELSE IsFinite(v) /\ v[1] * r["FSIZE"][1] = r["K5"][1] * v[2]

\* the division has run on a row with FSIZE zero and K5 positive and on a
\* row with FSIZE missing
C7_Witness ==
    /\ pc = "outliers"
    /\ \E k \in 1..NRows(apis_merged_clean) :
           /\ apis_merged_clean.rows[k]["FSIZE"] = Num(0)
           /\ apis_merged_clean.rows[k]["K5"] = Num(6)
           /\ apis_merged_clean.rows[k]["hh_income_pc"] = PInf
    /\ \E k \in 1..NRows(apis_merged_clean) :
           /\ apis_merged_clean.rows[k]["FSIZE"] = NA
           /\ apis_merged_clean.rows[k]["hh_income_pc"] = NA

\* the number of rows of t whose hh_income_pc is missing
MissingIncome(t) ==
    Cardinality({k \in 1..NRows(t) : t.rows[k]["hh_income_pc"] = NA})

\* no row is in both subsets (equal rows have equal hh_income_pc)
Disjoint(a, b) == Range(a.rows) \cap Range(b.rows) = {}

\* C6 as stated: the two filters give disjoint subsets whose row counts sum
\* to the row count of the table minus its rows with a missing
\* hh_income_pc, and both computed the same threshold.
C6_PartitionAlways ==
    pc = "apis_done" =>
        /\ Disjoint(outliers, apis_no_outliers)
        /\ thr.above = thr.atOrBelow
        /\ NRows(outliers) + NRows(apis_no_outliers) =
               NRows(apis_merged_clean) - MissingIncome(apis_merged_clean)

\* C6 amended: the two filters give disjoint subsets and computed the same
\* threshold; when the threshold is a number the row counts sum to the row
\* count of the table minus its rows with a missing hh_income_pc, and when
\* it is NaN both subsets are empty.  The threshold is a number whenever the
\* column has a value and all its values are finite.
C6_PartitionUnlessNaN ==
    pc = "apis_done" =>
        LET col == Column(apis_merged_clean, "hh_income_pc")
        IN  /\ Disjoint(outliers, apis_no_outliers)
            /\ thr.above = thr.atOrBelow
            /\ IF thr.above = NA
               THEN NRows(outliers) = 0 /\ NRows(apis_no_outliers) = 0
               ELSE NRows(outliers) + NRows(apis_no_outliers) =
                        NRows(apis_merged_clean) - MissingIncome(apis_merged_clean)
            /\ ((\E k \in DOMAIN col : col[k] # NA)
                    /\ (\A k \in DOMAIN col : col[k] = NA \/ IsFinite(col[k])))
                   => thr.above # NA

\* both filters ran on a table with a row above the threshold, a row at or
\* below it and a row whose hh_income_pc is missing
C6_Witness ==
    /\ pc = "apis_done"
    /\ NRows(outliers) = 1
    /\ NRows(apis_no_outliers) = 1
    /\ MissingIncome(apis_merged_clean) = 1
    /\ NRows(apis_merged_clean) = 3

-----------------------------------------------------------------------------
(* Properties of the order of the cells (checked under Spec) *)

\* the pipeline stage of the operation a cell applies: 1 Loader, 2 Cleaner,
\* 3 Merger, 4 Feature deriver, 5 Summarizer; 0 when there is no cell to run
StageOf(cell) ==
    IF cell \in {"load_dataset", "read_csv"} THEN 1
    ELSE IF cell \in {"copy", "dropna_embarked", "drop_deck", "get_dummies", "rename",
                      "drop_duplicates", "map", "dedup", "dropna_K5"} THEN 2
    ELSE IF cell \in {"merge_start", "merge"} THEN 3
    ELSE IF cell = "derive" THEN 4
    ELSE IF cell \in {"outliers", "no_outliers"} THEN 5
    ELSE 0

\* each stage consumes the table the stage before it produced: the merge
\* starts from the deduplicated household record, dropna(K5) selects rows of
\* the merged table, the division extends the table dropna(K5) gave, and the
\* two filters select rows of the table the division extended
ConsumesPrevious ==
    /\ pc = "merge_start" =>
           apis_merged' = DropDuplicatesOn(loaded["hh_rec"], "HHID")
    /\ (pc = "dropna_K5" /\ pc' = "derive") =>
           /\ apis_merged_clean'.cols = apis_merged.cols
           /\ Range(apis_merged_clean'.rows) \subseteq Range(apis_merged.rows)
    /\ pc = "derive" =>
           DropColumn(apis_merged_clean', "hh_income_pc") = apis_merged_clean
    /\ pc = "outliers" =>
           Range(outliers'.rows) \subseteq Range(apis_merged_clean.rows)
    /\ pc = "no_outliers" =>
           Range(apis_no_outliers'.rows) \subseteq Range(apis_merged_clean.rows)

-----------------------------------------------------------------------------
(* The division on given columns (checked under SpecFeature) *)

\* C12: on K5 = [1000, 2000, 3000] and FSIZE = [2, 4, 3] the division gives
\* hh_income_pc = [500, 500, 1000]; and on any table, a row whose K5 is a
\* number and whose FSIZE is a number other than zero gets the quotient of
\* its own K5 by its own FSIZE.
C12_ElementwiseQuotient ==
    pc \in AfterDerive =>
        /\ (Column(apis_merged_clean, "K5") = ExampleK5
                /\ Column(apis_merged_clean, "FSIZE") = ExampleFSIZE) =>
               Column(apis_merged_clean, "hh_income_pc") = <<Num(500), Num(500), Num(1000)>>
        /\ \A k \in 1..NRows(apis_merged_clean) :
               LET K == apis_merged_clean.rows[k]["K5"]
                   F == apis_merged_clean.rows[k]["FSIZE"]
                   v == apis_merged_clean.rows[k]["hh_income_pc"]
               IN  (IsFinite(K) /\ IsFinite(F) /\ F # Num(0)) =>
                       /\ IsFinite(v)
                       /\ v[1] * K[2] * F[1] = K[1] * F[2] * v[2]

\* the division has run on the three households of the example
C12_Witness ==
    /\ pc = "outliers"
    /\ before = ExampleTable
    /\ Column(apis_merged_clean, "hh_income_pc") = <<Num(500), Num(500), Num(1000)>>

-----------------------------------------------------------------------------
(* Properties of the duplicate removal (checked under SpecDup) *)

\* df_clean.duplicated().sum()
DuplicatedCount(t) == Cardinality({k \in 1..NRows(t) : Duplicated(t, k)})

\* the position of the first row of t that is identical to r
FirstOccurrence(t, r) ==
    CHOOSE k \in 1..NRows(t) : t.rows[k] = r /\ \A j \in 1..(k - 1) : t.rows[j] # r

\* C13: after drop_duplicates() the count of duplicated rows is 0, the rows
\* of the result are the distinct rows of the input, each once, in the order
\* of their first occurrences in the input, the columns are unchanged, and a
\* second drop_duplicates() returns the table as it is.
C13_FirstOccurrencesOnce ==
    pc = "map" =>
        /\ df_clean.cols = before.cols
        /\ DuplicatedCount(df_clean) = 0
        /\ Range(df_clean.rows) = Range(before.rows)
        /\ NRows(df_clean) = Cardinality(Range(before.rows))
        /\ \A a, b \in 1..NRows(df_clean) :
               a < b => FirstOccurrence(before, df_clean.rows[a])
                            < FirstOccurrence(before, df_clean.rows[b])
        /\ DropDuplicates(df_clean) = df_clean

\* drop_duplicates() has run on three rows of which the third repeats the
\* first, and kept the first and the second
C13_Witness ==
    /\ pc = "map"
    /\ NRows(before) = 3
    /\ before.rows[3] = before.rows[1]
    /\ before.rows[2] # before.rows[1]
    /\ DuplicatedCount(before) = 1
    /\ df_clean.rows = <<before.rows[1], before.rows[2]>>

-----------------------------------------------------------------------------
(* Properties of the merged table in the notebook (checked under Spec) *)

\* the cells at which apis_merged holds the copy of hh_rec or a later value
AfterMergeStart ==
    {"merge", "dropna_K5", "derive", "outliers", "no_outliers", "apis_done", "KeyError"}

\* C14: from the copy of hh_rec on, after every iteration of the merge loop
\* and after the loop, every table of apis_4merge has at most one row per
\* HHID, and apis_merged has as many rows as the deduplicated hh_rec, the
\* same HHID on every position, every HHID at most once, and on every row
\* the values hh_rec has there in its own columns.
C14_MergedHasRowsOfHhRec ==
    pc \in AfterMergeStart =>
        /\ \A n \in Range(apis_4merge) : \A h \in HHIDs : KeyCount(heap[n], h) <= 1
        /\ NRows(apis_merged) = NRows(heap["hh_rec"])
        /\ Column(apis_merged, "HHID") = Column(heap["hh_rec"], "HHID")
        /\ \A h \in HHIDs :
               /\ KeyCount(apis_merged, h) <= 1
               /\ KeyCount(apis_merged, h) = 1 <=> KeyCount(loaded["hh_rec"], h) >= 1
        /\ \A k \in 1..NRows(apis_merged) :
               \A c \in heap["hh_rec"].cols :
                   apis_merged.rows[k][c] = heap["hh_rec"].rows[k][c]

\* the loop has joined a member record and an RTK that were read with two
\* rows of one HHID each onto a household record of two households
C14_Witness ==
    /\ pc = "dropna_K5"
    /\ KeyCount(loaded["mem_rec"], Num(1)) = 2
    /\ KeyCount(loaded["apis_rtk"], Num(2)) = 2
    /\ NRows(heap["mem_rec"]) = 1
    /\ NRows(heap["hh_rec"]) = 2
    /\ NRows(apis_merged) = 2
    /\ {"LNO", "K5"} \subseteq apis_merged.cols

=============================================================================
